---- MODULE Spec2Model ----
(***************************************************************************)
(* Accountability agent: a Firestore-triggered pipeline that analyses chat *)
(* messages for future-dated commitments, stores one reminder document per *)
(* commitment and enqueues a Cloud Task that fires at 00:00 UTC of the     *)
(* commitment date.                                                        *)
(*                                                                         *)
(* Modelled from functions/src/index.ts (the deployed pipeline) and        *)
(* src/accountability-agent.ts + src/llm-provider.ts (the class-based      *)
(* agent).                                                                 *)
(*                                                                         *)
(* Time is counted in instants; DayLen instants make one UTC calendar day, *)
(* instant d * DayLen is 00:00:00.000Z of 2025-08-d.  The host time zone   *)
(* is an offset tz in instants (local time = UTC + tz).                    *)
(***************************************************************************)
EXTENDS Integers, Sequences, FiniteSets, TLC

\* ------------------------------------------------------------------ bounds
DayLen == 2      \* instants per calendar day
MaxDay == 4      \* calendar days 2025-08-01 .. 2025-08-MaxDay appear in messages
StartDay == 2    \* the UTC calendar day on which the pipeline starts
MaxEvents == 2   \* event deliveries per behaviour

Days == 1..MaxDay
TimeZones == {-1, 0, 1}

\* ------------------------------------------------------- Date (JS Date)
\* A JS Date: a time value, or NaN ("Invalid Date").
InvalidDate == [valid |-> FALSE, t |-> 0]

DateAt(t) == [valid |-> TRUE, t |-> t]

\* YYYY-MM-DD of calendar day d (2025-08-d; day 0 and below fall in July).
FormatIso(d) ==
    IF d <= 0 THEN "2025-07-" \o ToString(31 + d)
    ELSE IF d < 10 THEN "2025-08-0" \o ToString(d)
    ELSE "2025-08-" \o ToString(d)

\* The calendar days a date of the model can fall on.
ParseableDays == (0 - 1)..(MaxDay + 2)

IsoTable == [d \in ParseableDays |-> FormatIso(d)]

IsoString(d) == IsoTable[d]

\* A string that matches \d{4}-\d{2}-\d{2} and is no calendar date.
InvalidIso == "2025-13-45"

\* new Date(s + 'T00:00:00.000Z'), and new Date(s) for a date-only ISO string:
\* UTC midnight of the date, NaN when s is no date.
newDateUtc(s) ==
    LET ds == {d \in ParseableDays : IsoTable[d] = s}
    IN  IF ds = {} THEN InvalidDate ELSE DateAt((CHOOSE d \in ds : TRUE) * DayLen)

\* new Date("August 15, 2025"), new Date("8/15/2025"): the legacy parser reads
\* a non-ISO date in the host time zone: local midnight of day d.
newDateLocal(d, tz) == IF d = 0 THEN InvalidDate ELSE DateAt(d * DayLen - tz)

\* date.toISOString().split('T')[0]: the UTC calendar date of the instant.
toISODate(date) == IsoString(date.t \div DayLen)

\* today = new Date(); today.setHours(0, 0, 0, 0): midnight of the host's
\* local calendar day.
LocalMidnight(now, tz) == DateAt(((now + tz) \div DayLen) * DayLen - tz)

\* a <= b on Dates compares time values; every comparison with NaN is false.
DateLE(a, b) == a.valid /\ b.valid /\ a.t <= b.t

\* ------------------------------------------------------ message content
\* A message is a sequence of tokens: words, date mentions in one of the
\* four written formats (day 0: digits of that shape that are no date), and
\* leading or trailing white space.
Word(w) == [k |-> "w", w |-> w, day |-> 0]
DateTok(fmt, d) == [k |-> fmt, w |-> "", day |-> d]
Space == [k |-> "sp", w |-> " ", day |-> 0]

RenderTok(t) ==
    CASE t.k = "w" -> t.w
      [] t.k = "sp" -> " "
      [] t.k = "ISO" -> IF t.day = 0 THEN InvalidIso ELSE IsoString(t.day)
      [] t.k = "NATURAL" ->
            IF t.day = 0 THEN "Smarch 45, 2025"
            ELSE "August " \o ToString(t.day) \o ", 2025"
      [] t.k = "US" ->
            IF t.day = 0 THEN "13/45/2025" ELSE "8/" \o ToString(t.day) \o "/2025"
      [] t.k = "DASH" ->
            IF t.day = 0 THEN "13-45-2025" ELSE "8-" \o ToString(t.day) \o "-2025"

RECURSIVE Render(_)
\* The message text: tokens separated by one blank.
Render(toks) ==
    IF Len(toks) = 0 THEN ""
    ELSE RenderTok(Head(toks))
         \o (IF Len(toks) > 1 /\ Head(toks).k # "sp" /\ toks[2].k # "sp"
             THEN " " ELSE "")
         \o Render(Tail(toks))

RECURSIVE TrimLeft(_)
TrimLeft(toks) ==
    IF Len(toks) > 0 /\ Head(toks).k = "sp" THEN TrimLeft(Tail(toks)) ELSE toks

RECURSIVE TrimRight(_)
TrimRight(toks) ==
    IF Len(toks) > 0 /\ toks[Len(toks)].k = "sp"
    THEN TrimRight(SubSeq(toks, 1, Len(toks) - 1)) ELSE toks

\* messageContent.trim()
trim(toks) == TrimRight(TrimLeft(toks))

\* toLowerCase() on the words of the vocabulary.
Lower(w) ==
    CASE w = "I" -> "i"
      [] w = "Will" -> "will"
      [] w = "My" -> "my"
      [] w = "Is" -> "is"
      [] w = "I'm" -> "i'm"
      [] OTHER -> w

\* Words whose lower-case form ends in on|by|until|before: the regexes put no
\* word boundary in front of the preposition.
EndsWithPreposition(w) == Lower(w) \in {"on", "by", "until", "before", "marathon"}

\* The first match of a date regex: the leftmost date mention of the format,
\* for the regexes with (?:on|by|until|before)\s+ the leftmost one that
\* directly follows a preposition.  0: no match.
Matches(toks, fmt, prep) ==
    {i \in 1..Len(toks) :
        /\ toks[i].k = fmt
        /\ prep => (i > 1 /\ toks[i - 1].k = "w" /\ EndsWithPreposition(toks[i - 1].w))}

FirstMatch(toks, fmt, prep) ==
    LET m == Matches(toks, fmt, prep)
    IN  IF m = {} THEN 0 ELSE CHOOSE i \in m : \A j \in m : i <= j

\* match[0]: the matched phrase, with the preposition when the regex has one.
MatchedPhrase(toks, i, prep) ==
    IF prep THEN toks[i - 1].w \o " " \o RenderTok(toks[i]) ELSE RenderTok(toks[i])

\* ------------------------------------------- parseDateTool (DateExtractor)
\* The five recognizers, in the order of the source.  Confidence in percent.
datePatterns ==
    << [fmt |-> "ISO", prep |-> FALSE, format |-> "ISO", confidence |-> 95],
       [fmt |-> "ISO", prep |-> TRUE, format |-> "ISO_WITH_PREPOSITION", confidence |-> 90],
       [fmt |-> "NATURAL", prep |-> TRUE, format |-> "NATURAL", confidence |-> 80],
       [fmt |-> "US", prep |-> TRUE, format |-> "US_FORMAT", confidence |-> 70],
       [fmt |-> "DASH", prep |-> TRUE, format |-> "DASH_FORMAT", confidence |-> 70] >>

\* `${year}-${month.padStart(2, '0')}-${day.padStart(2, '0')}` of M/D/YYYY or
\* M-D-YYYY.
Reassemble(tok) == IF tok.day = 0 THEN InvalidIso ELSE IsoString(tok.day)

\* The switch on pattern.format: ISO and the two numeric formats are read as
\* UTC midnight, the natural-language format by new Date(dateStr).
ParseByFormat(format, tok, tz) ==
    CASE format \in {"ISO", "ISO_WITH_PREPOSITION"} -> newDateUtc(RenderTok(tok))
      [] format = "NATURAL" -> newDateLocal(tok.day, tz)
      [] format \in {"US_FORMAT", "DASH_FORMAT"} -> newDateUtc(Reassemble(tok))

NoDateFound == [hasDate |-> FALSE, dateIso |-> "", confidence |-> 0, extractedPhrase |-> ""]

\* Whether a parsed candidate is rejected as not in the future.
NotInFuture(parsedDate, currentDate) == DateLE(parsedDate, currentDate)

RECURSIVE parseDateFrom(_, _, _, _)
\* The loop over datePatterns from recognizer n on: only the first match of
\* a recognizer is looked at; a rejected candidate moves on to the next
\* recognizer.
parseDateFrom(n, toks, currentDate, tz) ==
    IF n > Len(datePatterns) THEN NoDateFound
    ELSE LET p == datePatterns[n]
             i == FirstMatch(toks, p.fmt, p.prep)
         IN  IF i = 0 THEN parseDateFrom(n + 1, toks, currentDate, tz)
             ELSE LET parsedDate == ParseByFormat(p.format, toks[i], tz)
                  IN  IF ~parsedDate.valid
                      THEN parseDateFrom(n + 1, toks, currentDate, tz)
                      ELSE IF NotInFuture(parsedDate, currentDate)
                      THEN parseDateFrom(n + 1, toks, currentDate, tz)
                      ELSE [hasDate |-> TRUE,
                            dateIso |-> toISODate(parsedDate),
                            confidence |-> p.confidence,
                            extractedPhrase |-> MatchedPhrase(toks, i, p.prep)]

\* parseCommitmentDate({messageText, currentDate}) on a host in time zone tz.
parseDateTool(messageText, currentDate, tz) ==
    parseDateFrom(1, messageText, newDateUtc(currentDate), tz)

\* ------------------------------------------------ analyzeMessageFallback
\* commitmentWords.some(word => messageContent.toLowerCase().includes(word)):
\* a substring test, so "william" has 'will' and "going today" has 'going to'.
ContainsKeyword(w) ==
    Lower(w) \in {"commit", "promise", "will", "goal", "target", "deadline",
                  "schedule", "appointment", "reminder", "william"}

ContainsKeywordPair(w1, w2) ==
    /\ Lower(w1) \in {"going", "plan", "intend"}
    /\ Lower(w2) \in {"to", "today", "tomorrow"}

hasCommitmentWord(toks) ==
    \/ \E i \in 1..Len(toks) : toks[i].k = "w" /\ ContainsKeyword(toks[i].w)
    \/ \E i \in 1..(Len(toks) - 1) :
          /\ toks[i].k = "w" /\ toks[i + 1].k = "w"
          /\ ContainsKeywordPair(toks[i].w, toks[i + 1].w)

\* The four regexes of analyzeMessageFallback, in the order of the source.
fallbackPatterns ==
    << [fmt |-> "ISO", prep |-> TRUE],
       [fmt |-> "NATURAL", prep |-> TRUE],
       [fmt |-> "US", prep |-> TRUE],
       [fmt |-> "ISO", prep |-> FALSE] >>

\* new Date(dateStr) on the captured text: a date-only ISO string is UTC
\* midnight, every other form is local midnight.
newDate(tok, tz) ==
    IF tok.k = "ISO" THEN newDateUtc(RenderTok(tok)) ELSE newDateLocal(tok.day, tz)

NoReminder == [date_iso |-> "", text |-> ""]

\* {hasCommitment: false}; scanned counts the date regexes that were run.
NoCommitment(scanned) ==
    [hasCommitment |-> FALSE, reminder |-> NoReminder, scanned |-> scanned]

\* today in analyzeMessageFallback and analyzeMessageWithGenkit.
Today(now, tz) == LocalMidnight(now, tz)

RECURSIVE fallbackFrom(_, _, _, _)
fallbackFrom(n, toks, now, tz) ==
    IF n > Len(fallbackPatterns) THEN NoCommitment(n - 1)
    ELSE LET p == fallbackPatterns[n]
             i == FirstMatch(toks, p.fmt, p.prep)
         IN  IF i = 0 THEN fallbackFrom(n + 1, toks, now, tz)
             ELSE LET date == newDate(toks[i], tz)
                  IN  IF ~date.valid THEN fallbackFrom(n + 1, toks, now, tz)
                      ELSE IF DateLE(date, Today(now, tz))
                      THEN fallbackFrom(n + 1, toks, now, tz)
                      ELSE [hasCommitment |-> TRUE,
                            reminder |-> [date_iso |-> toISODate(date),
                                          text |-> Render(trim(toks))],
                            scanned |-> n]

\* A fallback that looks for dates without looking for a keyword first.
analyzeMessageFallbackNoKeyword(messageContent, now, tz) ==
    fallbackFrom(1, messageContent, now, tz)

analyzeMessageFallback(messageContent, now, tz) ==
    IF ~hasCommitmentWord(messageContent) THEN NoCommitment(0)
    ELSE fallbackFrom(1, messageContent, now, tz)

\* ------------------------------------------- analyzeMessageWithGenkit
\* The four commitment phrases, in the order of the source (matched with /i).
commitmentPatterns ==
    << <<"i", "will">>,
       <<"my", "goal", "is", "to">>,
       <<"i", "plan", "to">>,
       <<"i'm", "going", "to">> >>

\* Words that start with on|by|in|at: the boundary (?:\s+on|\s+by|\s+in|\s+at)
\* has no word boundary behind it.
StartsWithBoundary(w) == Lower(w) \in {"on", "by", "in", "at", "into", "attend"}

\* The phrase stands at token p and at least one character follows its blank.
PhraseAt(toks, p, phrase) ==
    /\ p + Len(phrase) <= Len(toks)
    /\ \A k \in 1..Len(phrase) :
          toks[p + k - 1].k = "w" /\ Lower(toks[p + k - 1].w) = phrase[k]
    /\ toks[p + Len(phrase)].k # "sp"

\* match[1] of phrase + (.+?)(?:\s+on|\s+by|\s+in|\s+at|\s*$) at its leftmost
\* match: the lazy capture ends before the first later word that starts
\* with a boundary, or at the end of the message.
Capture(toks, phrase) ==
    LET p == CHOOSE x \in 1..Len(toks) :
                /\ PhraseAt(toks, x, phrase)
                /\ \A y \in 1..(x - 1) : ~PhraseAt(toks, y, phrase)
        q == p + Len(phrase)
        stops == {j \in (q + 1)..Len(toks) :
                     toks[j].k = "w" /\ StartsWithBoundary(toks[j].w)}
        e == IF stops = {} THEN Len(toks)
             ELSE (CHOOSE j \in stops : \A j2 \in stops : j <= j2) - 1
    IN  SubSeq(toks, q, e)

RECURSIVE commitmentTextFrom(_, _)
commitmentTextFrom(n, toks) ==
    IF n > Len(commitmentPatterns) THEN Render(trim(toks))
    ELSE IF \E x \in 1..Len(toks) : PhraseAt(toks, x, commitmentPatterns[n])
    THEN Render(trim(Capture(toks, commitmentPatterns[n])))
    ELSE commitmentTextFrom(n + 1, toks)

\* The commitment text of the AI strategy: the first phrase that matches
\* gives the text, otherwise the trimmed message.
ExtractCommitmentText(messageContent) == commitmentTextFrom(1, messageContent)

\* One entry of response.toolRequests; the tool runs on the host with the
\* input the model gave it.
ToolRequest(name, hasResponse, messageText, currentDate) ==
    [name |-> name, hasResponse |-> hasResponse,
     input |-> [messageText |-> messageText, currentDate |-> currentDate]]

\* toolRequest.toolResponse.output: what parseDateTool returned.
ToolOutput(req, tz) == parseDateTool(req.input.messageText, req.input.currentDate, tz)

\* toolResult && toolResult.success && toolResult.dateIso
ToolResultUsable(toolResult) ==
    /\ "success" \in DOMAIN toolResult
    /\ toolResult["success"] = TRUE
    /\ toolResult.dateIso # ""

Commitment(dateIso, text, scanned) ==
    [hasCommitment |-> TRUE,
     reminder |-> [date_iso |-> dateIso, text |-> text],
     scanned |-> scanned]

RECURSIVE toolRequestsFrom(_, _, _, _, _)
\* The backup branch: the loop over response.toolRequests.
toolRequestsFrom(n, messageContent, response, now, tz) ==
    IF n > Len(response.toolRequests) THEN NoCommitment(0)
    ELSE LET req == response.toolRequests[n]
         IN  IF req.name = "parseCommitmentDate" /\ req.hasResponse
                /\ ToolResultUsable(ToolOutput(req, tz))
             THEN LET toolResult == ToolOutput(req, tz)
                  IN  IF DateLE(newDateUtc(toolResult.dateIso), Today(now, tz))
                      THEN NoCommitment(0)
                      ELSE Commitment(toolResult.dateIso,
                                      ExtractCommitmentText(messageContent), 0)
             ELSE toolRequestsFrom(n + 1, messageContent, response, now, tz)

\* response: says = the lower-cased text includes 'commitment' and
\* 'specific future date'; date = the first \b\d{4}-\d{2}-\d{2}\b of the text
\* ("" when there is none); toolRequests.
analyzeMessageWithGenkit(messageContent, response, now, tz) ==
    IF response.says /\ response.date # ""
    THEN IF DateLE(newDateUtc(response.date), Today(now, tz))
         THEN NoCommitment(0)
         ELSE Commitment(response.date, ExtractCommitmentText(messageContent), 0)
    ELSE toolRequestsFrom(1, messageContent, response, now, tz)

\* ---------------------------------------------------------- analyzeMessage
\* process.env.LLM_PROVIDER && process.env.LLM_API_KEY
LlmConfigured(e) == e.LLM_PROVIDER # "" /\ e.LLM_API_KEY # ""

\* An analyzer that answers 'no commitment' when the AI call throws.
analyzeMessageNoFallback(messageContent, e, ai, now, tz) ==
    IF LlmConfigured(e)
    THEN IF ai.threw THEN NoCommitment(0)
         ELSE analyzeMessageWithGenkit(messageContent, ai.response, now, tz)
    ELSE analyzeMessageFallback(messageContent, now, tz)

\* ai = [threw, response]: what ai.generate does for this call.
analyzeMessage(messageContent, e, ai, now, tz) ==
    IF LlmConfigured(e) /\ ~ai.threw
    THEN analyzeMessageWithGenkit(messageContent, ai.response, now, tz)
    ELSE analyzeMessageFallback(messageContent, now, tz)

\* The strategies analyzeMessage invokes, in order.
StrategiesRun(e, ai) ==
    IF LlmConfigured(e)
    THEN IF ai.threw THEN <<"genkit", "fallback">> ELSE <<"genkit">>
    ELSE <<"fallback">>

\* The strategy whose result analyzeMessage returns: the last one it ran.
DecidedBy(strategies) == strategies[Len(strategies)]

\* ---------------------------------------------------- schedule time, task
\* A schedule time at noon of the date.
calculateScheduleTimeNoon(dateIso) ==
    LET date == newDateUtc(dateIso)
    IN  IF ~date.valid
        THEN [threw |-> TRUE, message |-> "Invalid date format: " \o dateIso, date |-> date]
        ELSE [threw |-> FALSE, message |-> "", date |-> DateAt(date.t + DayLen \div 2)]

\* calculateScheduleTime: the Date, or a thrown 'Invalid date format'.
calculateScheduleTime(dateIso) ==
    LET date == newDateUtc(dateIso)
    IN  IF ~date.valid
        THEN [threw |-> TRUE, message |-> "Invalid date format: " \o dateIso, date |-> date]
        ELSE [threw |-> FALSE, message |-> "", date |-> date]

\* A task scheduled for the end of the commitment's day.
NotificationTaskEndOfDay(userId, reminderText, scheduleTime, projectId) ==
    [parent |-> "projects/" \o projectId \o "/locations/us-central1/queues/reminder-queue",
     httpMethod |-> "POST",
     url |-> "https://us-central1-" \o projectId
               \o ".cloudfunctions.net/sendReminderNotification",
     body |-> [userId |-> userId, reminderText |-> reminderText],
     seconds |-> scheduleTime.t + DayLen]

\* The argument of tasksClient.createTask in scheduleNotification.
\* seconds = Math.floor(scheduleTime.getTime() / 1000), counted in instants.
NotificationTask(userId, reminderText, scheduleTime, projectId) ==
    [parent |-> "projects/" \o projectId \o "/locations/us-central1/queues/reminder-queue",
     httpMethod |-> "POST",
     url |-> "https://us-central1-" \o projectId
               \o ".cloudfunctions.net/sendReminderNotification",
     body |-> [userId |-> userId, reminderText |-> reminderText],
     seconds |-> scheduleTime.t]

\* ============================== GenkitLLMProvider (src/src/llm-provider.ts)
\* lowerMessage.includes(word) for the commitmentWords, on the words of the
\* vocabulary: one-word entries, then the entries that end in " to".
IncludesCommitmentWord(w) == Lower(w) \in {"will", "william", "should", "must"}

IncludesCommitmentPair(w1, w2) ==
    /\ Lower(w1) \in {"need", "plan", "going", "have", "intend", "want", "promise"}
    /\ Lower(w2) \in {"to", "today", "tomorrow", "tonight"}

\* lowerMessage.includes(word) for the timeIndicators.
IncludesTimeIndicator(w) ==
    Lower(w) \in {"tomorrow", "today", "tonight", "morning", "afternoon", "evening",
                  "monday", "tuesday", "wednesday", "thursday", "friday",
                  "saturday", "sunday", "daily", "weekly", "am", "pm", "o'clock",
                  "team", "exam"}

IncludesTimePair(w1, w2) ==
    /\ Lower(w1) \in {"every", "next", "this"}
    /\ Lower(w2) \in {"day", "week"}
    /\ Lower(w1) = "every" <=> Lower(w2) = "day"

\* The positions of the words, and of the words followed by a word.
WordsOf(toks) == {i \in 1..Len(toks) : toks[i].k = "w"}

PairsOf(toks) == {i \in WordsOf(toks) : i + 1 \in WordsOf(toks)}

\* lowerMessage.includes(word), for a word of the vocabulary.
IncludesWord(toks, word) == \E i \in WordsOf(toks) : Lower(toks[i].w) = word

providerHasCommitmentWord(toks) ==
    \/ \E i \in WordsOf(toks) : IncludesCommitmentWord(toks[i].w)
    \/ \E i \in PairsOf(toks) : IncludesCommitmentPair(toks[i].w, toks[i + 1].w)

hasTimeIndicator(toks) ==
    \/ \E i \in WordsOf(toks) : IncludesTimeIndicator(toks[i].w)
    \/ \E i \in PairsOf(toks) : IncludesTimePair(toks[i].w, toks[i + 1].w)

\* The alternatives of the prefix regex of extractCommitmentText.
providerPrefixes ==
    << <<"i", "will">>, <<"i", "need", "to">>, <<"i", "should">>, <<"i", "must">>,
       <<"i", "plan", "to">>, <<"i'm", "going", "to">>, <<"i", "have", "to">>,
       <<"i", "intend", "to">>, <<"i", "want", "to">>, <<"i", "promise", "to">> >>

WordsAt(toks, phrase) ==
    /\ Len(toks) > Len(phrase)
    /\ \A k \in 1..Len(phrase) : toks[k].k = "w" /\ Lower(toks[k].w) = phrase[k]

\* .replace(/^(I will|I need to|...)\s+/i, '')
StripPrefix(toks) ==
    LET ps == {n \in 1..Len(providerPrefixes) : WordsAt(toks, providerPrefixes[n])}
    IN  IF ps = {} THEN toks
        ELSE LET n == CHOOSE m \in ps : \A k \in ps : m <= k
             IN  TrimLeft(SubSeq(toks, Len(providerPrefixes[n]) + 1, Len(toks)))

\* What \w+ or \d+ leaves of the token it starts to match.
AfterWordChars(tok) ==
    CASE tok.k = "w" -> IF Lower(tok.w) = "i'm" THEN "'m" ELSE ""
      [] tok.k = "ISO" ->
            IF tok.day = 0 THEN "-13-45"
            ELSE IF tok.day < 10 THEN "-08-0" \o ToString(tok.day)
            ELSE "-08-" \o ToString(tok.day)
      [] tok.k = "NATURAL" ->
            IF tok.day = 0 THEN " 45, 2025" ELSE " " \o ToString(tok.day) \o ", 2025"
      [] tok.k = "US" ->
            IF tok.day = 0 THEN "/45/2025" ELSE "/" \o ToString(tok.day) \o "/2025"
      [] tok.k = "DASH" ->
            IF tok.day = 0 THEN "-45-2025" ELSE "-" \o ToString(tok.day) \o "-2025"

\* Token i starts a match of (tomorrow|today|tonight|on \w+|at \d+) that has
\* white space in front of it.
TimePhraseAt(toks, i) ==
    /\ i > 1
    /\ toks[i].k = "w"
    /\ \/ Lower(toks[i].w) \in {"tomorrow", "today", "tonight"}
       \/ /\ Lower(toks[i].w) = "on"
          /\ i < Len(toks) /\ toks[i + 1].k # "sp"
       \/ /\ Lower(toks[i].w) = "at"
          /\ i < Len(toks) /\ toks[i + 1].k \in {"ISO", "US", "DASH"}

\* .replace(/\s+(tomorrow|today|tonight|on \w+|at \d+)/i, '').trim()
RemoveTimePhrase(toks) ==
    LET m == {i \in 1..Len(toks) : TimePhraseAt(toks, i)}
    IN  IF m = {} THEN Render(trim(toks))
        ELSE LET i == CHOOSE a \in m : \A b \in m : a <= b
                 single == Lower(toks[i].w) \in {"tomorrow", "today", "tonight"}
                 head == Render(trim(SubSeq(toks, 1, i - 1)))
                         \o (IF single THEN "" ELSE AfterWordChars(toks[i + 1]))
                 rest == TrimRight(SubSeq(toks, IF single THEN i + 1 ELSE i + 2,
                                          Len(toks)))
             IN  IF head = "" THEN Render(TrimLeft(rest))
                 ELSE head \o (IF rest # <<>> /\ Head(rest).k # "sp" THEN " " ELSE "")
                           \o Render(rest)

\* message.replace(/^(I\s+)?/i, '').trim()
StripI(toks) ==
    IF Len(toks) > 1 /\ toks[1].k = "w" /\ Lower(toks[1].w) = "i"
    THEN trim(Tail(toks)) ELSE trim(toks)

\* The texts of the model hold no '.', '!' or '?': a text longer than
\* maxLength is cut at maxLength.
truncateAtSentenceBoundary(text, maxLength) ==
    IF Len(text) <= maxLength THEN text ELSE SubSeq(text, 1, maxLength)

extractCommitmentText(message) ==
    LET text == RemoveTimePhrase(StripPrefix(message))
    IN  truncateAtSentenceBoundary(
            IF Len(text) < 10 THEN Render(StripI(message)) ELSE text, 100)

\* toISOString().split('T')[0] of the instant t.
IsoDateOf(t) == FormatIso(t \div DayLen)

\* getDay() of a calendar day: 2025-08-01 is a Friday.
DayOfWeek(d) == (d + 4) % 7

daysOfWeek == <<"sunday", "monday", "tuesday", "wednesday", "thursday", "friday", "saturday">>

\* parseDate: an exact YYYY-MM-DD date as written, else tomorrow, today, the
\* next such weekday, and tomorrow when the message names no date.
parseDate(message, now, tz) ==
    LET exact == {i \in 1..Len(message) : message[i].k = "ISO"}
        named == {n \in 1..7 : IncludesWord(message, daysOfWeek[n])}
    IN  IF exact # {}
        THEN RenderTok(message[CHOOSE i \in exact : \A j \in exact : i <= j])
        ELSE IF IncludesWord(message, "tomorrow")
        THEN IsoDateOf(now + DayLen)
        ELSE IF IncludesWord(message, "today")
        THEN IsoDateOf(now)
        ELSE IF named # {}
        THEN LET n == CHOOSE a \in named : \A b \in named : a <= b
                 diff == (n - 1) - DayOfWeek((now + tz) \div DayLen)
                 daysToAdd == IF diff <= 0 THEN diff + 7 ELSE diff
             IN  IsoDateOf(now + daysToAdd * DayLen)
        ELSE IsoDateOf(now + DayLen)

\* A confidence, in percent, that is summed up without the cap.
calculateConfidenceUncapped(message, hasWord, hasTime) ==
    50 + (IF hasWord THEN 30 ELSE 0) + (IF hasTime THEN 20 ELSE 0)
       + (IF \E word \in {"will", "william", "promise", "commit",
                            "scheduled", "appointment"} :
                IncludesWord(message, word)
          THEN 20 ELSE 0)

\* Confidence in percent.
calculateConfidence(message, hasWord, hasTime) ==
    LET base == 50 + (IF hasWord THEN 30 ELSE 0) + (IF hasTime THEN 20 ELSE 0)
        strong == \E word \in {"will", "william", "promise", "commit",
                                 "scheduled", "appointment"} :
                      IncludesWord(message, word)
        sum == IF strong THEN base + 20 ELSE base
    IN  IF sum < 100 THEN sum ELSE 100

\* extractCommitments: the commitments found in the message, none or one.
extractCommitmentsRuleBased(message, now, tz) ==
    LET hasWord == providerHasCommitmentWord(message)
        hasTime == hasTimeIndicator(message)
        commitmentText == extractCommitmentText(message)
    IN  IF (hasWord \/ hasTime) /\ Len(commitmentText) > 5
        THEN << [dateIso |-> parseDate(message, now, tz),
                 text |-> commitmentText,
                 confidence |-> calculateConfidence(message, hasWord, hasTime)] >>
        ELSE <<>>

\* ------------------------------------------------------------ the state
VARIABLES
    env,        \* process.env: LLM_PROVIDER, LLM_API_KEY, isEmulator, GCLOUD_PROJECT
    tz,         \* the host's time zone offset
    now,        \* the clock (new Date(), Timestamp.now())
    reminders,  \* the documents under reminders/{uid}/userReminders/{id}
    calls,      \* the tasksClient.createTask calls made so far, in order
    delivered,  \* the number of events delivered so far
    last,       \* what the latest invocation of processUserMessage did
    probe,      \* the latest direct call of a function, with its result
    inflight,   \* the invocations of processUserMessage that run concurrently
    users,      \* the ids of the users/{userId} documents with a valid fcmToken
    idCalls     \* the direct calls of generateReminderId so far, with their results

vars == <<env, tz, now, reminders, calls, delivered, last, probe, inflight, users, idCalls>>

pipelineVars == <<env, tz, now, reminders, calls, delivered, last>>

\* ---------------------------------------------------------- reminder ids
\* createHash('sha256').update(s).digest('hex'), taken as injective: the
\* digest is identified with the hashed string.
Sha256Hex(s) == "sha256:" \o s

\* An id from a hash object shared by all calls: every update adds to what
\* the earlier calls fed it.
generateReminderIdSharedHash(userId, dateIso, text) ==
    Sha256Hex(ToString(Len(idCalls)) \o ":" \o userId \o "-" \o dateIso \o "-" \o text)

\* generateReminderId: a fresh hash object per call, fed `${userId}-${dateIso}-${text}`.
generateReminderId(userId, dateIso, text) ==
    Sha256Hex(userId \o "-" \o dateIso \o "-" \o text)

\* ------------------------------------------------------------- the inputs
Envs ==
    {[LLM_PROVIDER |-> l[1], LLM_API_KEY |-> l[2],
      isEmulator |-> s[1], GCLOUD_PROJECT |-> s[2]] :
        l \in {<<"", "">>, <<"openai", "sk-key">>},
        s \in {<<TRUE, "test-project">>, <<FALSE, "">>, <<FALSE, "test-project">>}}

W(ws) == [i \in 1..Len(ws) |-> Word(ws[i])]

\* "I will go to the gym on 2025-08-0d"
GymOn(d) == W(<<"I", "will", "go", "to", "the", "gym", "on">>) \o <<DateTok("ISO", d)>>

\* "I had a good day today"
GoodDay == W(<<"I", "had", "a", "good", "day", "today">>)

\* "Is 2025-08-0d a holiday"
Holiday(d) == W(<<"Is">>) \o <<DateTok("ISO", d)>> \o W(<<"a", "holiday">>)

\* "I will train on 2025-08-0a and on 2025-08-0b"
TwoDates(a, b) ==
    W(<<"I", "will", "train", "on">>) \o <<DateTok("ISO", a)>>
    \o W(<<"and", "on">>) \o <<DateTok("ISO", b)>>

\* messageData.content of a document without a content field: undefined.
Undefined == <<[k |-> "undefined", w |-> "", day |-> 0]>>

\* A Firestore event for sessions/{sessionId}/messages/{messageId}.
Event(messageId, sessionId, userId, type, content) ==
    [hasData |-> TRUE, messageId |-> messageId, sessionId |-> sessionId,
     data |-> [content |-> content, userId |-> userId, type |-> type]]

\* The messages of the chat, each with its own message id: m3, m4 and m8 state
\* the same commitment of user u1, m9 is the same sentence from user u2.
\* m12 is "I will go to the gym on 2025-13-45".
Events ==
    {Event("m1", "s1", "u1", "user", GymOn(StartDay - 1)),
     Event("m2", "s1", "u1", "user", GymOn(StartDay)),
     Event("m3", "s1", "u1", "user", GymOn(StartDay + 1)),
     Event("m4", "s1", "u1", "user", <<Space>> \o GymOn(StartDay + 1) \o <<Space>>),
     Event("m5", "s1", "u1", "user", GoodDay),
     Event("m6", "s1", "u1", "user", Holiday(StartDay + 1)),
     Event("m7", "s1", "u1", "user", TwoDates(StartDay - 1, StartDay + 2)),
     Event("m8", "s2", "u1", "user", GymOn(StartDay + 1)),
     Event("m9", "s3", "u2", "user", GymOn(StartDay + 1)),
     Event("m10", "s1", "u1", "agent", GymOn(StartDay + 1)),
     [Event("m11", "s1", "u1", "user", GoodDay) EXCEPT !.hasData = FALSE],
     Event("m12", "s1", "u1", "user", GymOn(0))}

\* Messages of type 'user' without a body: the content of m13 is the empty
\* string, m14 has no content field.
BodilessEvents ==
    {Event("m13", "s1", "u1", "user", <<>>),
     Event("m14", "s1", "u1", "user", Undefined)}

NoResponse == [says |-> FALSE, date |-> "", toolRequests |-> <<>>]
AiThrew == [threw |-> TRUE, response |-> NoResponse]

\* The first \d{4}-\d{2}-\d{2} of the message, "" when it has none.
FirstIsoOf(content) ==
    IF FirstMatch(content, "ISO", FALSE) = 0 THEN ""
    ELSE RenderTok(content[FirstMatch(content, "ISO", FALSE)])

Response(says, date, toolRequests) ==
    [says |-> says, date |-> date, toolRequests |-> toolRequests]

\* The answers of the model the pipeline is run with: no commitment found, a
\* commitment with the first date of the message, and a tool call with no
\* verdict in the text.
Responses(content, t) ==
    {Response(FALSE, "", <<>>),
     Response(TRUE, FirstIsoOf(content), <<>>),
     Response(FALSE, "", <<ToolRequest("parseCommitmentDate", TRUE, content,
                                       toISODate(DateAt(t)))>>)}

\* What ai.generate may do for a message: throw, or answer.
AiOutcomes(e, content, t) ==
    IF LlmConfigured(e)
    THEN {AiThrew} \cup {[threw |-> FALSE, response |-> r] : r \in Responses(content, t)}
    ELSE {AiThrew}

\* A Firestore set(): succeeds, or rejects with an error whose message does /
\* does not contain 'metadata' or 'Cloud Tasks'.
WriteOutcomes == {"ok", "error", "error-metadata"}
EnqueueOutcomes == {"ok", "error"}

\* ------------------------------------------------------- the reminder store
Doc(uid, id, data) == [uid |-> uid, id |-> id, data |-> data]

DocsAt(store, uid, id) == {r \in store : r.uid = uid /\ r.id = id}

\* The fields of a document after set(data, {merge: true}).
MergeFields(old, new) ==
    [f \in DOMAIN old \cup DOMAIN new |-> IF f \in DOMAIN new THEN new[f] ELSE old[f]]

\* A set() that would replace the collection by the one document written.
SetMergeDroppingOthers(store, uid, id, data) ==
    {Doc(uid, id, data)}

\* doc(uid)/userReminders/doc(id).set(data, {merge: true})
SetMerge(store, uid, id, data) ==
    LET at == DocsAt(store, uid, id)
    IN  (store \ at)
        \cup {Doc(uid, id, IF at = {} THEN data
                           ELSE MergeFields((CHOOSE r \in at : TRUE).data, data))}

\* reminderData of processUserMessage.
ReminderData(userId, date_iso, text, t, messageId, sessionId) ==
    [userId |-> userId, date_iso |-> date_iso, text |-> text,
     createdAt |-> t, messageId |-> messageId, sessionId |-> sessionId]

\* A document id taken from the message instead of the commitment.
ReminderDocIdOfMessage(userId, date_iso, text, messageId) ==
    Sha256Hex(userId \o "-" \o messageId)

\* A document id that leaves the text out of the fingerprint.
ReminderDocIdOfDate(userId, date_iso, text, messageId) ==
    generateReminderId(userId, date_iso, "")

\* The document id processUserMessage writes to.
ReminderDocId(userId, date_iso, text, messageId) ==
    generateReminderId(userId, date_iso, text)

\* ------------------------------------------- processUserMessage (index.ts)
\* The two early returns: no data, or a message that is not of type 'user'.
Filtered(event) == ~event.hasData \/ event.data.type # "user"

\* The error a failed set() rejects with.
WriteError(w) == [mentionsCloudTasks |-> FALSE, mentionsMetadata |-> w = "error-metadata"]

\* The outer catch re-throws unless the message includes 'Cloud Tasks' or
\* 'metadata'.
Rethrown(err) == ~err.mentionsCloudTasks /\ ~err.mentionsMetadata

\* A scheduling block that enqueues without looking at the date.
SchedulePlanUnchecked(e, date_iso) ==
    IF e.isEmulator THEN "skipped"
    ELSE IF e.GCLOUD_PROJECT = "" THEN "no-project"
    ELSE "enqueue"

\* A scheduling block that does not look at the project id.
SchedulePlanIgnoringProject(e, date_iso) ==
    IF e.isEmulator THEN "skipped"
    ELSE IF calculateScheduleTime(date_iso).threw THEN "invalid-date"
    ELSE "enqueue"

\* A scheduling block that does not look at the emulator flag.
SchedulePlanIgnoringEmulator(e, date_iso) ==
    IF calculateScheduleTime(date_iso).threw THEN "invalid-date"
    ELSE IF e.GCLOUD_PROJECT = "" THEN "no-project"
    ELSE "enqueue"

\* messageContent.toLowerCase() of analyzeMessageFallback throws a TypeError
\* when the content is undefined; the AI strategy only puts the content
\* into its prompt.
AnalysisThrows(messageContent, e, ai) ==
    messageContent = Undefined /\ DecidedBy(StrategiesRun(e, ai)) = "fallback"

\* "Cannot read properties of undefined (reading 'toLowerCase')"
TypeError == [mentionsCloudTasks |-> FALSE, mentionsMetadata |-> FALSE]

\* What the scheduling block does after a successful write.
SchedulePlan(e, date_iso) ==
    IF e.isEmulator THEN "skipped"
    ELSE IF calculateScheduleTime(date_iso).threw THEN "invalid-date"
    ELSE IF e.GCLOUD_PROJECT = "" THEN "no-project"
    ELSE "enqueue"

\* A scheduling block that lets a failed createTask leave the handler.
EscapesSchedulingBlockOnFailure(q) == q # "ok"

\* catch (notificationError) of the scheduling block: the error is logged
\* and the handler goes on; nothing thrown in the block leaves it.
EscapesSchedulingBlock(q) == FALSE

\* The createTask call of scheduleNotification, with its result.
CreateTaskCall(event, reminder, e, q) ==
    [task |-> NotificationTask(event.data.userId, reminder.text,
                               calculateScheduleTime(reminder.date_iso).date,
                               e.GCLOUD_PROJECT),
     ok |-> q = "ok",
     messageId |-> event.messageId]

\* A document path under sessions/{sessionId}/messages.
MessageDocPath(userId, reminderId) ==
    <<"sessions", userId, "messages", reminderId>>

\* db.collection('reminders').doc(userId).collection('userReminders')
\*   .doc(reminderId): the path of the one document the handler calls set() on.
ReminderDocPath(userId, reminderId) ==
    <<"reminders", userId, "userReminders", reminderId>>

\* What an invocation did; answer = the response of ai.generate the result
\* was read from; sets = the paths it called set() on (the handler makes no
\* update() or delete() call), whether or not the call succeeded.
Report(event, ai, strategies, analysis, outcome, threw, existed, wrote, enqueued) ==
    [event |-> event, at |-> now, redelivered |-> event = last.event,
     answer |-> IF strategies = <<"genkit">> THEN ai.response ELSE NoResponse,
     strategies |-> strategies, analysis |-> analysis,
     outcome |-> outcome, threw |-> threw, existed |-> existed,
     wrote |-> wrote, enqueued |-> enqueued,
     sets |-> IF analysis.hasCommitment
              THEN {ReminderDocPath(event.data.userId,
                                    ReminderDocId(event.data.userId,
                                                  analysis.reminder.date_iso,
                                                  analysis.reminder.text,
                                                  event.messageId))}
              ELSE {}]

NoEvent == [hasData |-> FALSE, messageId |-> "", sessionId |-> "",
            data |-> [content |-> <<>>, userId |-> "", type |-> ""]]

Idle ==
    [event |-> NoEvent, at |-> 0, redelivered |-> FALSE, answer |-> NoResponse,
     strategies |-> <<>>,
     analysis |-> NoCommitment(0), outcome |-> "idle", threw |-> FALSE,
     existed |-> FALSE, wrote |-> FALSE, enqueued |-> 0, sets |-> {}]

\* One invocation of the handler, from the event to its return or throw.
ProcessUserMessage(event, ai, w, q) ==
    /\ delivered < MaxEvents
    /\ delivered' = delivered + 1
    /\ now' = now + 1
    /\ UNCHANGED <<env, tz>>
    /\ IF Filtered(event)
       THEN /\ UNCHANGED <<reminders, calls>>
            /\ last' = Report(event, ai, <<>>, NoCommitment(0), "filtered",
                              FALSE, FALSE, FALSE, 0)
       ELSE IF AnalysisThrows(event.data.content, env, ai)
       THEN /\ UNCHANGED <<reminders, calls>>
            /\ last' = Report(event, ai, StrategiesRun(env, ai), NoCommitment(0),
                              IF Rethrown(TypeError) THEN "fatal" ELSE "swallowed",
                              Rethrown(TypeError), FALSE, FALSE, 0)
       ELSE LET analysis == analyzeMessage(event.data.content, env, ai, now, tz)
                strategies == StrategiesRun(env, ai)
                userId == event.data.userId
                r == analysis.reminder
                id == ReminderDocId(userId, r.date_iso, r.text, event.messageId)
                existed == DocsAt(reminders, userId, id) # {}
                data == ReminderData(userId, r.date_iso, r.text, now,
                                     event.messageId, event.sessionId)
                plan == SchedulePlan(env, r.date_iso)
            IN  IF ~analysis.hasCommitment
                THEN /\ UNCHANGED <<reminders, calls>>
                     /\ last' = Report(event, ai, strategies, analysis, "no-commitment",
                                       FALSE, FALSE, FALSE, 0)
                ELSE IF w # "ok"
                THEN /\ UNCHANGED <<reminders, calls>>
                     /\ last' = Report(event, ai, strategies, analysis,
                                       IF Rethrown(WriteError(w)) THEN "fatal"
                                       ELSE "swallowed",
                                       Rethrown(WriteError(w)), existed, FALSE, 0)
                ELSE /\ reminders' = SetMerge(reminders, userId, id, data)
                     /\ IF plan = "enqueue"
                        THEN /\ calls' = Append(calls, CreateTaskCall(event, r, env, q))
                             /\ last' = Report(event, ai, strategies, analysis,
                                               IF q = "ok" THEN "scheduled"
                                               ELSE "schedule-failed",
                                               EscapesSchedulingBlock(q),
                                               existed, TRUE, 1)
                        ELSE /\ UNCHANGED calls
                             /\ last' = Report(event, ai, strategies, analysis, plan,
                                               FALSE, existed, TRUE, 0)

NoProbe == [tool |-> "", input |-> <<>>, output |-> <<>>]

\* The concurrent invocations, each at an await of the handler or outside it.
Invocations == {"a", "b"}

NotStarted ==
    [pc |-> "idle", event |-> NoEvent, analysis |-> NoCommitment(0),
     at |-> 0, wrote |-> FALSE, enqueued |-> 0]

NoneInFlight == [i \in Invocations |-> NotStarted]

Init ==
    /\ env \in Envs
    /\ tz \in TimeZones
    /\ now = StartDay * DayLen
    /\ reminders = {}
    /\ calls = <<>>
    /\ delivered = 0
    /\ last = Idle
    /\ probe = NoProbe
    /\ inflight = NoneInFlight
    /\ users = {"u1"}
    /\ idCalls = <<>>

\* An event is delivered and handled, one instant after the previous one; the
\* write and the enqueue are given an outcome from ws and qs where the
\* invocation reaches them.
DeliverOf(events, ws, qs) ==
    /\ delivered < MaxEvents
    /\ \E event \in events :
           \E ai \in AiOutcomes(env, event.data.content, now) :
               LET analysis == analyzeMessage(event.data.content, env, ai, now, tz)
                   commits == ~Filtered(event) /\ analysis.hasCommitment
               IN  \E w \in IF commits THEN ws ELSE {"ok"} :
                       \E q \in IF commits /\ w = "ok"
                                    /\ SchedulePlan(env, analysis.reminder.date_iso) = "enqueue"
                                 THEN qs ELSE {"ok"} :
                           ProcessUserMessage(event, ai, w, q)
    /\ UNCHANGED <<probe, inflight, users, idCalls>>

DeliverWith(ws, qs) == DeliverOf(Events, ws, qs)

\* Deliveries during which Firestore and Cloud Tasks answer.
Deliver == DeliverWith({"ok"}, {"ok"})

Next == Deliver

Spec == Init /\ [][Next]_vars

\* The messages delivered while the collaborators may fail: a commitment
\* (m3), its restatement (m8), no commitment (m5), a message of the agent
\* (m10), an invalid date (m12) and the messages without a body.
FaultEvents ==
    {e \in Events : e.messageId \in {"m3", "m5", "m8", "m10", "m12"}}
    \cup BodilessEvents

\* Deliveries during which a Firestore write or a createTask call may fail.
DeliverFaulty == DeliverOf(FaultEvents, WriteOutcomes, EnqueueOutcomes)

NextFaults == DeliverFaulty

SpecFaults == Init /\ [][NextFaults]_vars

\* ==================================================== the claims, pipeline
UtcDay(t) == t \div DayLen

\* The latest invocation got past the two early returns.
Handled == last.outcome \notin {"idle", "filtered"}

ByFallback == Handled /\ DecidedBy(last.strategies) = "fallback"

SchedulingEnabled == ~env.isEmulator /\ env.GCLOUD_PROJECT # ""

SameFingerprint(r1, r2) ==
    /\ r1.data.userId = r2.data.userId
    /\ r1.data.date_iso = r2.data.date_iso
    /\ r1.data.text = r2.data.text

\* C1: after any sequence of deliveries, whatever their message ids, the
\* store holds at most one Reminder for a given (userId, date_iso, text).
C1_OneReminderPerFingerprint ==
    \A r1, r2 \in reminders : SameFingerprint(r1, r2) => r1 = r2

\* Message m8 restated a commitment that was already stored, wrote it again,
\* and the store holds one Reminder.
C1_Witness ==
    /\ last.event.messageId = "m8"
    /\ ~last.redelivered
    /\ last.existed /\ last.wrote
    /\ Cardinality(reminders) = 1

\* C2: events that yield the same (userId, date_iso, text) cause one
\* createTask call in total, and an event that finds the Reminder already
\* stored makes no scheduling attempt.
C2_OneEnqueuePerFingerprint ==
    /\ \A i, j \in DOMAIN calls : calls[i].task = calls[j].task => i = j
    /\ (last.existed => last.enqueued = 0)

\* C3: a write to a Reminder that is already stored leaves its createdAt,
\* messageId and sessionId as they were.
C3_FirstWriteFieldsKept ==
    [][\A r \in reminders :
          \E s \in reminders' :
              /\ s.uid = r.uid /\ s.id = r.id
              /\ s.data.createdAt = r.data.createdAt
              /\ s.data.messageId = r.data.messageId
              /\ s.data.sessionId = r.data.sessionId]_vars

\* C4: however often an event is processed, and whichever strategy analyses
\* each of its deliveries, the store holds one Reminder for it.
C4_OneReminderPerEvent ==
    \A r1, r2 \in reminders : r1.data.messageId = r2.data.messageId => r1 = r2

\* ---------------------------------------------------------------- C7
IsoMentions(content) == {i \in DOMAIN content : content[i].k = "ISO"}

FutureIsoMentions(content, t) ==
    {i \in IsoMentions(content) : content[i].day > UtcDay(t)}

FirstIsoMention(content) ==
    CHOOSE i \in IsoMentions(content) : \A j \in IsoMentions(content) : i <= j

\* The latest invocation handled a user message with a commitment keyword
\* through the fallback strategy, with scheduling enabled and no Reminder
\* stored for it before.
KeywordMessageToSchedule ==
    /\ ByFallback
    /\ hasCommitmentWord(last.event.data.content)
    /\ SchedulingEnabled
    /\ ~last.existed

\* One Reminder with the fields of the event, and one POST task for it at
\* 00:00 UTC of its date.
StoredAndScheduledOnce ==
    LET e == last.event
        userId == e.data.userId
        text == Render(trim(e.data.content))
        mine == {r \in reminders : r.uid = userId /\ r.data.text = text}
        future == FutureIsoMentions(e.data.content, last.at)
    IN  /\ last.wrote /\ ~last.threw
        /\ \E i \in future :
               /\ mine = {Doc(userId,
                              "sha256:" \o userId \o "-" \o RenderTok(e.data.content[i])
                                         \o "-" \o text,
                              [userId |-> userId,
                               date_iso |-> RenderTok(e.data.content[i]),
                               text |-> text,
                               createdAt |-> last.at,
                               messageId |-> e.messageId,
                               sessionId |-> e.sessionId])}
               /\ last.enqueued = 1
               /\ Len(calls) > 0
               /\ LET task == calls[Len(calls)].task
                  IN  /\ task.httpMethod = "POST"
                      /\ task.url = "https://us-central1-" \o env.GCLOUD_PROJECT
                                      \o ".cloudfunctions.net/sendReminderNotification"
                      /\ task.body = [userId |-> userId, reminderText |-> text]
                      /\ task.seconds = e.data.content[i].day * DayLen
                      /\ \A k \in DOMAIN calls : calls[k].task = task => k = Len(calls)

NoFutureDate(content, t) ==
    \A i \in DOMAIN content :
        content[i].k \in {"ISO", "NATURAL", "US", "DASH"}
            => content[i].day <= UtcDay(t)

NothingStoredOrScheduled ==
    /\ ~last.analysis.hasCommitment
    /\ ~last.wrote /\ last.enqueued = 0 /\ ~last.threw

\* C8: a message with a commitment keyword but no valid date strictly after
\* the day of analysis yields hasCommitment = false, no Reminder, no enqueue
\* call and no error.
C8_NoFutureDateNoReminder ==
    (ByFallback
        /\ hasCommitmentWord(last.event.data.content)
        /\ NoFutureDate(last.event.data.content, last.at))
    => NothingStoredOrScheduled

\* ---------------------------------------------------------------- C9
\* C9: the fallback strategy returns hasCommitment = false for a message
\* without a commitment keyword, without running any date regex, whatever
\* dates the message holds; nothing is stored and nothing enqueued.
C9_NoKeywordNoCommitment ==
    (ByFallback /\ ~hasCommitmentWord(last.event.data.content))
    => /\ NothingStoredOrScheduled
       /\ last.analysis.scanned = 0
       /\ last.outcome = "no-commitment"

\* "Is 2025-08-03 a holiday", a future date and no keyword, went through the
\* fallback after the language model failed, with a Reminder already stored.
C9_Witness ==
    /\ ByFallback
    /\ last.event.messageId = "m6"
    /\ last.strategies = <<"genkit", "fallback">>
    /\ FutureIsoMentions(last.event.data.content, last.at) # {}
    /\ last.outcome = "no-commitment"
    /\ Cardinality(reminders) = 1

\* ==================================================== the date extractor
\* Direct calls of the parseCommitmentDate tool, on hosts of every time zone.
\* A date mention of the texts: a format, a day (0: a date that does not
\* exist) and whether a preposition precedes it.
DateFormats == {"ISO", "NATURAL", "US", "DASH"}

Mention(fmt, d, prep) ==
    (IF prep THEN <<Word("on")>> ELSE <<>>) \o <<DateTok(fmt, d)>>

Mentions == {Mention(fmt, d, prep) : fmt \in DateFormats, d \in 0..MaxDay, prep \in BOOLEAN}

\* Texts with one date mention and texts with two.
DateTexts ==
    {W(<<"I", "will", "run">>) \o m : m \in Mentions}
    \cup {W(<<"I", "will", "run">>) \o m1 \o <<Word("and")>> \o m2 :
             m1 \in Mentions, m2 \in Mentions}

InitDate ==
    /\ env = [LLM_PROVIDER |-> "", LLM_API_KEY |-> "",
              isEmulator |-> TRUE, GCLOUD_PROJECT |-> "test-project"]
    /\ tz \in TimeZones
    /\ now = StartDay * DayLen
    /\ reminders = {}
    /\ calls = <<>>
    /\ delivered = 0
    /\ last = Idle
    /\ probe = NoProbe
    /\ inflight = NoneInFlight
    /\ users = {"u1"}
    /\ idCalls = <<>>

\* One call of parseCommitmentDate({messageText, currentDate}).
ParseCommitmentDate ==
    /\ probe = NoProbe
    /\ \E messageText \in DateTexts, d \in Days :
           probe' = [tool |-> "parseCommitmentDate",
                     input |-> [messageText |-> messageText,
                                currentDate |-> IsoString(d)],
                     output |-> parseDateTool(messageText, IsoString(d), tz)]
    /\ UNCHANGED <<pipelineVars, inflight, users, idCalls>>

\* One direct call of the exported analyzeMessageFallback(messageContent).
AnalyzeMessageFallback ==
    /\ probe = NoProbe
    /\ \E messageContent \in DateTexts :
           probe' = [tool |-> "analyzeMessageFallback",
                     input |-> [messageContent |-> messageContent, at |-> now],
                     output |-> analyzeMessageFallback(messageContent, now, tz)]
    /\ UNCHANGED <<pipelineVars, inflight, users, idCalls>>

NextDate == ParseCommitmentDate \/ AnalyzeMessageFallback

SpecDate == InitDate /\ [][NextDate]_vars

\* The calendar day a YYYY-MM-DD string names.
DayOfIso(s) == newDateUtc(s).t \div DayLen

\* C10: for every text, reference date and host time zone, the date the
\* extractor returns is strictly after the reference date, whichever of the
\* five recognizers, the natural-language one included, produced it.
C10_ExtractedDateAfterReference ==
    (probe.tool = "parseCommitmentDate" /\ probe.output.hasDate)
    => /\ newDateUtc(probe.output.dateIso).valid
       /\ DayOfIso(probe.output.dateIso) > DayOfIso(probe.input.currentDate)

\* ============================================= concurrent invocations
\* Two invocations of processUserMessage (index.ts) whose awaits interleave:
\* each runs to its next await in one step.
RaceEvents == {e \in Events : e.messageId \in {"m3", "m5", "m8", "m9", "m10"}}

InitRace ==
    /\ env \in Envs
    /\ tz \in TimeZones
    /\ now = StartDay * DayLen
    /\ reminders = {}
    /\ calls = <<>>
    /\ delivered = 0
    /\ last = Idle
    /\ probe = NoProbe
    /\ inflight = NoneInFlight
    /\ users = {"u1"}
    /\ idCalls = <<>>

\* The trigger fires: the two early returns, then the call of analyzeMessage.
Start(i) ==
    /\ inflight[i].pc = "idle"
    /\ \E event \in RaceEvents :
           inflight' = [inflight EXCEPT ![i] =
                           [@ EXCEPT !.event = event,
                                     !.pc = IF Filtered(event) THEN "done"
                                            ELSE "analysing"]]
    /\ UNCHANGED <<env, tz, now, reminders, calls, delivered, last, probe, users, idCalls>>

\* analyzeMessage resolves; with a commitment the handler builds reminderData
\* and calls set().
Analyse(i) ==
    /\ inflight[i].pc = "analysing"
    /\ \E ai \in AiOutcomes(env, inflight[i].event.data.content, now) :
           LET analysis == analyzeMessage(inflight[i].event.data.content,
                                          env, ai, now, tz)
           IN  inflight' = [inflight EXCEPT ![i] =
                               [@ EXCEPT !.analysis = analysis,
                                         !.at = now,
                                         !.pc = IF analysis.hasCommitment
                                                THEN "writing" ELSE "done"]]
    /\ now' = now + 1
    /\ UNCHANGED <<env, tz, reminders, calls, delivered, last, probe, users, idCalls>>

\* set(reminderData, {merge: true}) resolves; outside the emulator the
\* handler goes on to scheduleNotification.
Write(i) ==
    /\ inflight[i].pc = "writing"
    /\ LET event == inflight[i].event
           userId == event.data.userId
           r == inflight[i].analysis.reminder
           id == ReminderDocId(userId, r.date_iso, r.text, event.messageId)
           data == ReminderData(userId, r.date_iso, r.text, inflight[i].at,
                                event.messageId, event.sessionId)
       IN  /\ reminders' = SetMerge(reminders, userId, id, data)
           /\ inflight' = [inflight EXCEPT ![i] =
                               [@ EXCEPT !.wrote = TRUE,
                                         !.pc = IF SchedulePlan(env, r.date_iso) = "enqueue"
                                                THEN "scheduling" ELSE "done"]]
    /\ UNCHANGED <<env, tz, now, calls, delivered, last, probe, users, idCalls>>

\* tasksClient.createTask resolves.
Enqueue(i) ==
    /\ inflight[i].pc = "scheduling"
    /\ calls' = Append(calls, CreateTaskCall(inflight[i].event,
                                             inflight[i].analysis.reminder, env, "ok"))
    /\ inflight' = [inflight EXCEPT ![i] = [@ EXCEPT !.enqueued = 1, !.pc = "done"]]
    /\ UNCHANGED <<env, tz, now, reminders, delivered, last, probe, users, idCalls>>

NextRace ==
    \E i \in Invocations : Start(i) \/ Analyse(i) \/ Write(i) \/ Enqueue(i)

SpecRace == InitRace /\ [][NextRace]_vars

\* Both invocations are over and their analyses gave the same
\* (userId, date_iso, text).
RacedOnOneFingerprint(i, j) ==
    /\ i # j
    /\ inflight[i].pc = "done" /\ inflight[j].pc = "done"
    /\ inflight[i].analysis.hasCommitment /\ inflight[j].analysis.hasCommitment
    /\ inflight[i].event.data.userId = inflight[j].event.data.userId
    /\ inflight[i].analysis.reminder = inflight[j].analysis.reminder

\* C5: when two concurrent invocations yield the same fingerprint, in every
\* interleaving both attempt the write, the store ends with one Reminder for
\* the fingerprint and at most one notification task is enqueued for it.
C5_RaceOneReminderOneTask ==
    \A i, j \in Invocations :
        RacedOnOneFingerprint(i, j)
        => LET userId == inflight[i].event.data.userId
               r == inflight[i].analysis.reminder
           IN  /\ inflight[i].wrote /\ inflight[j].wrote
               /\ Cardinality({d \in reminders :
                                  /\ d.uid = userId
                                  /\ d.data.date_iso = r.date_iso
                                  /\ d.data.text = r.text}) = 1
               /\ Cardinality({k \in DOMAIN calls :
                                  /\ calls[k].task.body
                                       = [userId |-> userId, reminderText |-> r.text]
                                  /\ calls[k].task.seconds
                                       = DayOfIso(r.date_iso) * DayLen}) <= 1

\* ================= AccountabilityAgent (src/src/accountability-agent.ts)
\* documentToUserMessage: the message documents carry no sessionId field.
documentToUserMessage(event) ==
    [id |-> event.messageId, userId |-> event.data.userId, sessionId |-> "",
     content |-> event.data.content]

\* !message.content || !message.userId
Skipped(message) == message.content = <<>> \/ message.userId = ""

\* The fingerprint of the reminder store: a hash of userId-dateIso-text.
Fingerprint(userId, dateIso, text) ==
    Sha256Hex(userId \o "-" \o dateIso \o "-" \o text)

reminderExists(store, userId, dateIso, text) ==
    DocsAt(store, userId, Fingerprint(userId, dateIso, text)) # {}

createReminderFromCommitment(userId, dateIso, text, t) ==
    [id |-> Fingerprint(userId, dateIso, text), userId |-> userId,
     dateIso |-> dateIso, text |-> text, createdAt |-> t,
     scheduledAt |-> newDateUtc(dateIso).t]

createNotificationTask(reminderId, userId, scheduledAt, fcmToken, text) ==
    [reminderId |-> reminderId, userId |-> userId, scheduledAt |-> scheduledAt,
     fcmToken |-> fcmToken, payloadText |-> text]

saveReminder(store, reminder) ==
    (store \ DocsAt(store, reminder.userId, reminder.id))
    \cup {Doc(reminder.userId, reminder.id, reminder)}

\* getUserFCMToken: the token, or null for a user without a valid one.
getUserFCMToken(userId) == IF userId \in users THEN "token-" \o userId ELSE ""

AgentReport(event, strategies, commitments, outcome, existed, wrote, enqueued) ==
    [event |-> event, at |-> now, redelivered |-> event = last.event,
     strategies |-> strategies, analysis |-> commitments, outcome |-> outcome,
     threw |-> FALSE, existed |-> existed, wrote |-> wrote, enqueued |-> enqueued]

\* One invocation of the agent's processUserMessage; s and w are the outcomes
\* of scheduleNotification and saveReminder.  Every error is caught and
\* logged by the handler.
AgentProcessUserMessage(event, s, w) ==
    /\ delivered < MaxEvents
    /\ delivered' = delivered + 1
    /\ now' = now + 1
    /\ UNCHANGED <<env, tz, probe, inflight, users, idCalls>>
    /\ IF ~event.hasData
       THEN /\ UNCHANGED <<reminders, calls>>
            /\ last' = AgentReport(event, <<>>, <<>>, "no-data", FALSE, FALSE, 0)
       ELSE IF Skipped(documentToUserMessage(event))
       THEN /\ UNCHANGED <<reminders, calls>>
            /\ last' = AgentReport(event, <<>>, <<>>, "skipped", FALSE, FALSE, 0)
       ELSE LET message == documentToUserMessage(event)
                commitments == extractCommitmentsRuleBased(message.content, now, tz)
                ran == <<"rule-based">>
            IN  IF commitments = <<>>
                THEN /\ UNCHANGED <<reminders, calls>>
                     /\ last' = AgentReport(event, ran, commitments, "no-commitment",
                                            FALSE, FALSE, 0)
                ELSE LET c == commitments[1]
                         fcmToken == getUserFCMToken(message.userId)
                         reminder == createReminderFromCommitment(
                                         message.userId, c.dateIso, c.text, now)
                         task == createNotificationTask(reminder.id, message.userId,
                                     reminder.scheduledAt, fcmToken, c.text)
                     IN  IF reminderExists(reminders, message.userId, c.dateIso, c.text)
                         THEN /\ UNCHANGED <<reminders, calls>>
                              /\ last' = AgentReport(event, ran, commitments,
                                                     "existing", TRUE, FALSE, 0)
                         ELSE IF fcmToken = ""
                         THEN /\ UNCHANGED <<reminders, calls>>
                              /\ last' = AgentReport(event, ran, commitments,
                                                     "no-token", FALSE, FALSE, 0)
                         ELSE /\ calls' = Append(calls, [task |-> task, ok |-> s = "ok",
                                                          messageId |-> event.messageId])
                              /\ IF s = "ok" /\ w = "ok"
                                 THEN /\ reminders' = saveReminder(reminders,
                                             reminder @@ [notificationTaskId |-> Len(calls) + 1])
                                      /\ last' = AgentReport(event, ran, commitments,
                                                             "scheduled", FALSE, TRUE, 1)
                                 ELSE /\ UNCHANGED reminders
                                      /\ last' = AgentReport(event, ran, commitments,
                                                             "swallowed", FALSE, FALSE, 1)

\* The message documents delivered to the agent.
AgentEvents ==
    {Event("a1", "s1", "u1", "user", W(<<"I", "will", "call", "mom", "tomorrow">>)),
     Event("a2", "s1", "u1", "user", W(<<"I", "need", "to", "study", "today">>)),
     Event("a3", "s1", "u1", "user", GymOn(StartDay + 1)),
     Event("a4", "s1", "u1", "user", GymOn(StartDay - 1)),
     Event("a5", "s1", "u1", "user", GoodDay),
     Event("a6", "s1", "u1", "agent", W(<<"I", "will", "remind", "you", "tomorrow">>)),
     Event("a7", "s1", "", "user", GymOn(StartDay + 1)),
     Event("a8", "s1", "u1", "user", <<>>),
     [Event("a9", "s1", "u1", "user", GoodDay) EXCEPT !.hasData = FALSE],
     Event("a10", "s2", "u2", "user", W(<<"I", "will", "call", "mom", "tomorrow">>)),
     Event("a11", "s1", "u1", "user", W(<<"I", "will", "swim", "on", "friday">>)),
     Event("a12", "s1", "u1", "user", W(<<"gym", "today">>)),
     Event("a13", "s2", "u1", "user", W(<<"I", "will", "call", "mom", "tomorrow">>))}

\* createConfigFromEnvironment requires the three settings.
AgentEnv ==
    [LLM_PROVIDER |-> "openai", LLM_API_KEY |-> "sk-key", isEmulator |-> FALSE,
     GCLOUD_PROJECT |-> "test-project"]

InitAgent ==
    /\ env = AgentEnv
    /\ tz \in TimeZones
    /\ now = StartDay * DayLen
    /\ reminders = {}
    /\ calls = <<>>
    /\ delivered = 0
    /\ last = Idle
    /\ probe = NoProbe
    /\ inflight = NoneInFlight
    /\ users \in {{}, {"u1"}, {"u1", "u2"}}
    /\ idCalls = <<>>

AgentDeliverWith(ss, ws) ==
    /\ delivered < MaxEvents
    /\ \E event \in AgentEvents, s \in ss, w \in ws :
           AgentProcessUserMessage(event, s, w)

\* Deliveries during which the scheduler and the store answer.
AgentDeliver == AgentDeliverWith({"ok"}, {"ok"})

NextAgent == AgentDeliver

SpecAgent == InitAgent /\ [][NextAgent]_vars

\* Deliveries during which scheduleNotification or saveReminder may reject.
AgentDeliverFaulty == AgentDeliverWith({"ok", "error"}, {"ok", "error"})

SpecAgentFaults == InitAgent /\ [][AgentDeliverFaulty]_vars

\* C6: an event whose message is not of type 'user' never reaches the
\* analyzer: no analysis strategy is invoked for it, no Reminder written, no
\* enqueue call made and no error raised.
C6_NonUserNeverAnalysed ==
    (last.event.hasData /\ last.event.data.type # "user")
    => /\ last.strategies = <<>>
       /\ ~last.wrote /\ last.enqueued = 0 /\ ~last.threw

\* ================================================ the claims, date handling
\* C11: at every instant and in every host time zone, a message whose
\* commitment date is the current UTC calendar date is rejected: neither the
\* fallback strategy nor the language-model strategy returns a commitment
\* dated on the UTC day of the analysis.
C11_TodayUtcRejected ==
    (Handled /\ last.analysis.hasCommitment)
    => DayOfIso(last.analysis.reminder.date_iso) # UtcDay(last.at)

\* C12: every Reminder in the store has a date_iso that is a calendar date,
\* and no invocation ends in the scheduler's 'Invalid date format' error.
C12_StoredDatesValid ==
    /\ \A r \in reminders : newDateUtc(r.data.date_iso).valid
    /\ last.outcome # "invalid-date"

\* ================================================ the claims, the analyzer
\* C13: when a language model is configured and its call throws, the
\* analysis the handler works with is exactly what the fallback strategy
\* returns for the same message, and the invocation raises no error.
C13_AiFailureIsFallback ==
    (Handled /\ last.strategies = <<"genkit", "fallback">>)
    => /\ last.analysis
            = analyzeMessageFallback(last.event.data.content, last.at, tz)
       /\ ~last.threw

\* The model threw on 'I will go to the gym on 2025-08-03'; the fallback
\* found the commitment and its Reminder was stored and scheduled.
C13_Witness ==
    /\ last.strategies = <<"genkit", "fallback">>
    /\ last.event.messageId = "m3"
    /\ last.analysis.hasCommitment
    /\ last.analysis.reminder.date_iso = IsoString(StartDay + 1)
    /\ last.outcome = "scheduled"

\* ============================================== the claims, the scheduler
\* The createTask call of the latest invocation.
LastCall == calls[Len(calls)]

\* C14: for every calendar date the fire instant is 00:00:00.000 UTC of that
\* date, and the task an invocation enqueues carries that instant as its
\* schedule time, in every host time zone and at every processing instant.
C14_FiresAtUtcMidnight ==
    /\ \A d \in Days :
           calculateScheduleTime(FormatIso(d))
               = [threw |-> FALSE, message |-> "", date |-> DateAt(d * DayLen)]
    /\ last.enqueued = 1
       => \E d \in ParseableDays :
              /\ FormatIso(d) = last.analysis.reminder.date_iso
              /\ LastCall.task.seconds = d * DayLen

\* A commitment for 2025-08-03 was processed off UTC, at an instant that is
\* no midnight, and its task fires at 00:00Z of 2025-08-03.
C14_Witness ==
    /\ last.outcome = "scheduled"
    /\ tz # 0
    /\ last.at % DayLen # 0
    /\ last.analysis.reminder.date_iso = FormatIso(StartDay + 1)
    /\ LastCall.task.seconds = (StartDay + 1) * DayLen

\* The text an 'Invalid date format' error starts with.
InvalidDateFormat == "Invalid date format"

\* C15: calculateScheduleTime raises 'Invalid date format' for a dateIso
\* that is no date, and an invocation whose commitment has such a dateIso
\* makes no enqueue call.
C15_InvalidDateNeverEnqueued ==
    /\ \A s \in {InvalidIso, "invalid-date"} :
           /\ calculateScheduleTime(s).threw
           /\ SubSeq(calculateScheduleTime(s).message, 1, Len(InvalidDateFormat))
                  = InvalidDateFormat
    /\ (Handled /\ last.analysis.hasCommitment
            /\ ~newDateUtc(last.analysis.reminder.date_iso).valid)
       => /\ last.enqueued = 0
          /\ last.outcome \in {"invalid-date", "skipped"}

\* A commitment dated 2025-13-45 was stored outside the emulator with a
\* project configured; the scheduling block stopped at the invalid date and
\* no task was enqueued.
C15_Witness ==
    /\ SchedulingEnabled
    /\ last.analysis.hasCommitment
    /\ last.analysis.reminder.date_iso = InvalidIso
    /\ last.wrote
    /\ last.outcome = "invalid-date"
    /\ calls = <<>>

\* ============================================= the claims, error handling
\* The Reminder the latest invocation wrote, as it wrote it.
WrittenReminder ==
    LET e == last.event
        r == last.analysis.reminder
    IN  Doc(e.data.userId,
            generateReminderId(e.data.userId, r.date_iso, r.text),
            ReminderData(e.data.userId, r.date_iso, r.text, last.at,
                         e.messageId, e.sessionId))

\* C16: when the createTask call fails after the Reminder was written, the
\* Reminder stays in the store as written and the invocation ends without
\* an error.
C16_EnqueueFailureKeepsReminder ==
    (last.enqueued = 1 /\ ~LastCall.ok)
    => /\ last.wrote
       /\ WrittenReminder \in reminders
       /\ ~last.threw
       /\ last.outcome = "schedule-failed"

\* createTask failed for the commitment of m3: its Reminder is stored and
\* the invocation returned.
C16_Witness ==
    /\ last.event.messageId = "m3"
    /\ last.enqueued = 1 /\ ~LastCall.ok
    /\ WrittenReminder \in reminders
    /\ last.outcome = "schedule-failed"

\* C17: a failure that comes neither from the scheduling collaborator nor
\* from the language-model strategy leaves the handler as an error, whatever
\* its message says: an invocation whose Reminder write was rejected throws.
C17_WriteFailurePropagates ==
    (Handled /\ last.analysis.hasCommitment /\ ~last.wrote) => last.threw

\* C18: in emulator / development mode an invocation that finds a
\* commitment stores its Reminder, makes no createTask call and raises no
\* error.
C18_EmulatorStoresWithoutScheduling ==
    (env.isEmulator /\ Handled /\ last.analysis.hasCommitment)
    => /\ last.wrote
       /\ WrittenReminder \in reminders
       /\ last.enqueued = 0 /\ calls = <<>>
       /\ ~last.threw
       /\ last.outcome = "skipped"

\* In the emulator, with a project configured, the commitment of m3 was
\* found for the first time and stored; no task was enqueued.
C18_Witness ==
    /\ env.isEmulator /\ env.GCLOUD_PROJECT # ""
    /\ last.event.messageId = "m3"
    /\ ~last.existed /\ last.wrote
    /\ WrittenReminder \in reminders
    /\ last.outcome = "skipped"
    /\ calls = <<>>

\* ============================================= generateReminderId, called
\* The arguments the function is called with: user ids and texts with and
\* without the '-' the fingerprint is joined by.
IdUsers == {"user123", "u1", "u1-" \o IsoString(StartDay + 1)}
IdDates == {IsoString(StartDay + 1), IsoString(StartDay + 2)}
IdTexts == {"Go to gym", "gym", IsoString(StartDay + 2) \o "-gym"}

InitId ==
    /\ env \in {e \in Envs : e.isEmulator /\ ~LlmConfigured(e)}
    /\ tz \in TimeZones
    /\ now = StartDay * DayLen
    /\ reminders = {}
    /\ calls = <<>>
    /\ delivered = 0
    /\ last = Idle
    /\ probe = NoProbe
    /\ inflight = NoneInFlight
    /\ users = {"u1"}
    /\ idCalls = <<>>

\* One call of generateReminderId, recorded with its arguments and result.
GenerateReminderId ==
    /\ Len(idCalls) <= MaxEvents
    /\ \E userId \in IdUsers, dateIso \in IdDates, text \in IdTexts :
           idCalls' = Append(idCalls,
                             [input |-> <<userId, dateIso, text>>,
                              output |-> generateReminderId(userId, dateIso, text)])
    /\ UNCHANGED <<pipelineVars, probe, inflight, users>>

NextId == GenerateReminderId

SpecId == InitId /\ [][NextId]_vars

C20_DistinctTriplesDistinctIds ==
    \A i, j \in DOMAIN idCalls :
        idCalls[i].input # idCalls[j].input
            => idCalls[i].output # idCalls[j].output

\* =========================================== sendReminderNotification
\* The HTTP requests the endpoint is called with: every POST, with and
\* without its fields, and a GET with both fields.
Requests ==
    {req \in {[method |-> m, body |-> [userId |-> u, reminderText |-> t]] :
                 m \in {"GET", "POST"}, u \in {"", "u1", "u2"},
                 t \in {"", "Go to gym"}} :
        req.method = "POST"
            \/ (req.body.userId = "u1" /\ req.body.reminderText # "")}

\* The message handed to messaging.send.
PushMessage(userId, reminderText) ==
    [token |-> "token-" \o userId,
     notification |-> [title |-> "Therapy Commitment Reminder", body |-> reminderText],
     data |-> [type |-> "commitment_reminder", userId |-> userId]]

\* The answer of the endpoint: the status, the messaging.send calls it made
\* and the document paths it wrote.
Answer(status, sends) == [status |-> status, sends |-> sends, sets |-> {}]

\* An endpoint that serves every HTTP method.
sendReminderNotificationAnyMethod(req, g, s) ==
    IF req.body.userId = "" \/ req.body.reminderText = "" THEN Answer(400, <<>>)
    ELSE IF g # "ok" THEN Answer(500, <<>>)
    ELSE IF req.body.userId \notin users THEN Answer(404, <<>>)
    ELSE IF s # "ok"
         THEN Answer(500, <<PushMessage(req.body.userId, req.body.reminderText)>>)
    ELSE Answer(200, <<PushMessage(req.body.userId, req.body.reminderText)>>)

\* The handler of sendReminderNotification; g and s are the outcomes of the
\* read of users/{userId} and of messaging.send.
sendReminderNotification(req, g, s) ==
    IF req.method # "POST" THEN Answer(405, <<>>)
    ELSE IF req.body.userId = "" \/ req.body.reminderText = "" THEN Answer(400, <<>>)
    ELSE IF g # "ok" THEN Answer(500, <<>>)
    ELSE IF req.body.userId \notin users THEN Answer(404, <<>>)
    ELSE IF s # "ok"
         THEN Answer(500, <<PushMessage(req.body.userId, req.body.reminderText)>>)
    ELSE Answer(200, <<PushMessage(req.body.userId, req.body.reminderText)>>)

\* One request to the endpoint, recorded with its answer.
Request ==
    /\ probe = NoProbe
    /\ \E req \in Requests :
           LET valid == /\ req.method = "POST"
                        /\ req.body.userId # "" /\ req.body.reminderText # ""
           IN  \E g \in IF valid THEN {"ok", "error"} ELSE {"ok"} :
                   \E s \in IF valid /\ g = "ok" /\ req.body.userId \in users
                             THEN {"ok", "error"} ELSE {"ok"} :
                       probe' = [tool |-> "sendReminderNotification",
                                 input |-> [req |-> req, get |-> g, send |-> s],
                                 output |-> sendReminderNotification(req, g, s)]
    /\ UNCHANGED <<pipelineVars, inflight, users, idCalls>>

InitSend == Init /\ tz = 0

\* The pipeline next to the endpoint: a commitment (m3), a message of the
\* agent (m10) and an invalid date (m12), with collaborators that may fail.
DeliverBeside ==
    DeliverOf({e \in Events : e.messageId \in {"m3", "m10", "m12"}},
              WriteOutcomes, EnqueueOutcomes)

NextSend == DeliverBeside \/ Request

SpecSend == InitSend /\ [][NextSend]_vars

\* ============================================= the claims, the endpoints
\* C21: no step of the pipeline writes a document of the
\* sessions/{sessionId}/messages collection: every set() of
\* processUserMessage, in all of its outcomes, goes to another collection
\* and sendReminderNotification writes no document.
C21_ChatHistoryUntouched ==
    /\ \A path \in last.sets : path[1] # "sessions"
    /\ probe.tool = "sendReminderNotification" => probe.output.sets = {}

\* A Reminder was written for a commitment and the endpoint has answered a
\* request.
C21_Witness ==
    /\ last.wrote
    /\ last.sets # {}
    /\ probe.tool = "sendReminderNotification"
    /\ probe.output.status = 200

\* C22: sendReminderNotification calls messaging.send only for a POST whose
\* body has userId and reminderText and whose user has an fcmToken; it
\* answers 405 to another method, 400 to a missing field, 404 when the user
\* or the token is missing, all three without sending, 200 after a
\* successful send and 500 after a failed one.
C22_EndpointAnswers ==
    probe.tool = "sendReminderNotification"
    => LET req == probe.input.req
           out == probe.output
           post == req.method = "POST"
           fields == req.body.userId # "" /\ req.body.reminderText # ""
           token == req.body.userId \in users
           read == probe.input.get = "ok"
       IN  /\ out.sends # <<>> => (post /\ fields /\ token)
           /\ ~post => (out.status = 405 /\ out.sends = <<>>)
           /\ (post /\ ~fields) => (out.status = 400 /\ out.sends = <<>>)
           /\ (post /\ fields /\ read /\ ~token)
                  => (out.status = 404 /\ out.sends = <<>>)
           /\ (post /\ fields /\ read /\ token)
                  => /\ out.sends = <<PushMessage(req.body.userId,
                                                  req.body.reminderText)>>
                     /\ out.status = IF probe.input.send = "ok" THEN 200 ELSE 500

\* A POST for user u2, who has no token, was answered 404 and nothing was
\* sent.
C22_Witness ==
    /\ probe.tool = "sendReminderNotification"
    /\ probe.input.req.method = "POST"
    /\ probe.input.req.body = [userId |-> "u2", reminderText |-> "Go to gym"]
    /\ probe.output.status = 404
    /\ probe.output.sends = <<>>

\* ====================================== the claims, write before enqueue
\* C23: a notification task is enqueued only after the Reminder of the same
\* commitment was written: in every reachable state each task accepted by
\* the queue has a Reminder in the store with its userId, text and date,
\* also when a later step of the invocation failed.
C23_EveryTaskHasItsReminder ==
    \A i \in DOMAIN calls :
        calls[i].ok
        => \E r \in reminders :
               /\ r.data.userId = calls[i].task.userId
               /\ r.data.text = calls[i].task.payloadText
               /\ newDateUtc(r.data.dateIso).t = calls[i].task.scheduledAt

\* C24: every event in which a commitment is found and no repository write
\* fails ends with a Reminder for that (userId, dateIso, text) in the store,
\* whether or not the notification could be scheduled.
C24_CommitmentAlwaysStored ==
    (last.strategies = <<"rule-based">> /\ last.analysis # <<>>)
    => reminderExists(reminders, last.event.data.userId,
                      last.analysis[1].dateIso, last.analysis[1].text)

\* ================================================ the claims, recognizers
\* The recognizers in their stated order: format, whether a preposition
\* must precede the date, confidence in percent.
StatedRecognizers ==
    << <<"ISO", FALSE, 95>>, <<"ISO", TRUE, 90>>, <<"NATURAL", TRUE, 80>>,
       <<"US", TRUE, 70>>, <<"DASH", TRUE, 70>> >>

\* The recognizers whose first match in the text is a calendar date after
\* day ref.
Surviving(toks, ref) ==
    {n \in DOMAIN StatedRecognizers :
        LET i == FirstMatch(toks, StatedRecognizers[n][1], StatedRecognizers[n][2])
        IN  i # 0 /\ toks[i].day # 0 /\ toks[i].day > ref}

\* C25: the extractor returns the date and the confidence of the first of
\* the five recognizers, in the order bare ISO, preposition + ISO, natural,
\* MM/DD/YYYY, MM-DD-YYYY, whose first match in the text is a valid date
\* strictly after the reference date; later matches of a recognizer whose
\* first match was rejected do not count; with no such recognizer the result
\* is hasDate = false with confidence 0.
C25_FirstSurvivingRecognizerWins ==
    probe.tool = "parseCommitmentDate"
    => LET toks == probe.input.messageText
           ref == DayOfIso(probe.input.currentDate)
           ok == Surviving(toks, ref)
           n == CHOOSE k \in ok : \A j \in ok : k <= j
           i == FirstMatch(toks, StatedRecognizers[n][1], StatedRecognizers[n][2])
       IN  IF ok = {}
           THEN ~probe.output.hasDate /\ probe.output.confidence = 0
           ELSE /\ probe.output.hasDate
                /\ probe.output.dateIso = FormatIso(toks[i].day)
                /\ probe.output.confidence = StatedRecognizers[n][3]

\* C26: for a message with a commitment keyword the fallback strategy
\* returns a commitment exactly when the date extractor, run on the same
\* message with today's date as reference, finds a date; the commitment has
\* the extractor's dateIso and the full trimmed message as its text.
C26_FallbackAgreesWithExtractor ==
    (probe.tool = "analyzeMessageFallback"
        /\ hasCommitmentWord(probe.input.messageContent))
    => LET found == parseDateTool(probe.input.messageContent,
                                  toISODate(DateAt(probe.input.at)), tz)
           out == probe.output
       IN  /\ out.hasCommitment = found.hasDate
           /\ out.hasCommitment
                  => /\ out.reminder.date_iso = found.dateIso
                     /\ out.reminder.text = Render(trim(probe.input.messageContent))

\* ============================================ the claims, the AI strategy
\* An answer with no affirmative verdict and date in its text and no tool
\* call.
Unreadable(response) ==
    /\ ~(response.says /\ response.date # "")
    /\ response.toolRequests = <<>>

\* C27: when the language model answers with output from which neither a
\* verdict with a date nor a tool result can be read, the analysis is the
\* fallback strategy's result for the message, not the AI strategy's own
\* hasCommitment = false.
C27_UnreadableAnswerFallsBack ==
    (Handled /\ last.strategies = <<"genkit">> /\ Unreadable(last.answer))
    => LET fallback == analyzeMessageFallback(last.event.data.content, last.at, tz)
       IN  /\ last.analysis.hasCommitment = fallback.hasCommitment
           /\ last.analysis.reminder = fallback.reminder

\* C28: when the answer of the model has no usable verdict in its text but
\* the model called parseCommitmentDate and the tool returned a date
\* (hasDate = true with a dateIso), the AI strategy returns
\* hasCommitment = true with that dateIso.
C28_ToolDateBecomesCommitment ==
    (Handled /\ last.strategies = <<"genkit">>
        /\ ~(last.answer.says /\ last.answer.date # "")
        /\ last.answer.toolRequests # <<>>
        /\ last.answer.toolRequests[1].name = "parseCommitmentDate"
        /\ last.answer.toolRequests[1].hasResponse
        /\ ToolOutput(last.answer.toolRequests[1], tz).hasDate)
    => /\ last.analysis.hasCommitment
       /\ last.analysis.reminder.date_iso
              = ToolOutput(last.answer.toolRequests[1], tz).dateIso

\* ============================================== the claims, the handler
\* C29: a message of type 'user' whose content is empty or absent is
\* filtered out: no analysis strategy is invoked for it, nothing is written
\* or enqueued and no error is raised to the host.
C29_NoBodyFiltered ==
    (last.event.hasData /\ last.event.data.type = "user"
        /\ last.event.data.content \in {<<>>, Undefined})
    => /\ last.strategies = <<>>
       /\ ~last.wrote /\ last.enqueued = 0
       /\ ~last.threw

\* The outcomes of the handler under the names of the state machine:
\* Filtered-out, No-commitment, Reminder-existing, Reminder-created with
\* scheduling skipped, Notification-scheduled, Notification-failed, and a
\* propagated fatal error.
StatedOutcome ==
    CASE last.outcome = "filtered" -> "Filtered-out"
      [] last.outcome = "no-commitment" -> "No-commitment"
      [] last.outcome \in {"skipped", "no-project"} /\ ~last.existed
            -> "Reminder-created, scheduling skipped"
      [] last.outcome = "scheduled" /\ ~last.existed -> "Notification-scheduled"
      [] last.outcome \in {"schedule-failed", "invalid-date"} /\ ~last.existed
            -> "Notification-failed"
      [] last.outcome = "fatal" /\ last.threw -> "Fatal error"
      [] last.existed /\ ~last.wrote /\ last.enqueued = 0 /\ ~last.threw
            -> "Reminder-existing"
      [] OTHER -> "none"

\* C30: every invocation of the handler ends in one of the outcomes of the
\* state machine, reached by its transitions: a commitment whose Reminder is
\* already stored ends in Reminder-existing with no write and no enqueue,
\* and an invocation that stored nothing and scheduled nothing for a found
\* commitment ended in a propagated error.
C30_EndsInStatedOutcome ==
    last.outcome # "idle" => StatedOutcome # "none"

\* C31: the stored Reminders only grow: a step of the pipeline, whatever the
\* outcome of its write and of its enqueue, leaves a document at every path
\* that held one, and the invocation that wrote a Reminder and then failed
\* to schedule it leaves the record as it wrote it.
C31_RemindersOnlyGrow ==
    [][/\ \A r \in reminders : DocsAt(reminders', r.uid, r.id) # {}
       /\ (last'.wrote /\ last'.outcome = "schedule-failed")
              => \E r \in reminders' :
                     /\ r.uid = last'.event.data.userId
                     /\ r.data.messageId = last'.event.messageId
                     /\ r.data.date_iso = last'.analysis.reminder.date_iso
                     /\ r.data.text = last'.analysis.reminder.text]_vars

\* Two Reminders are stored and the scheduling of the second one failed.
C31_Witness ==
    /\ Cardinality(reminders) >= 2
    /\ last.wrote /\ last.outcome = "schedule-failed"

\* C32: every commitment returned by GenkitLLMProvider.extractCommitments
\* carries a dateIso strictly later than the UTC calendar date of the
\* analysis, also for a message that says 'today', names a past YYYY-MM-DD
\* date or names no date.
C32_ProviderDatesAfterToday ==
    last.strategies = <<"rule-based">>
    => \A n \in 1..Len(last.analysis) :
           DayOfIso(last.analysis[n].dateIso) > UtcDay(last.at)

\* ============================================ the text of the AI strategy
\* Direct calls of analyzeMessageWithGenkit on messages built of an opening,
\* an action and a date, answered by the model with a commitment on the date
\* of the message.
CommitmentTexts ==
    LET openings ==
            {W(<<"I", "will">>), W(<<"My", "goal", "is", "to">>),
             W(<<"I", "plan", "to">>), W(<<"I'm", "going", "to">>),
             W(<<"Tomorrow", "I", "will">>), W(<<"We", "should">>), <<>>}
        actions ==
            {W(<<"run">>), W(<<"call", "mom">>), W(<<"attend", "class">>),
             W(<<"go", "into", "town">>), W(<<"run", "by", "the", "lake">>),
             W(<<"meet", "Sam", "at", "noon">>)}
        closings ==
            {Mention("ISO", StartDay + 1, TRUE), Mention("ISO", StartDay + 1, FALSE),
             W(<<"before">>) \o Mention("ISO", StartDay + 2, FALSE)}
    IN  {o \o a \o c : o \in openings, a \in actions, c \in closings}
        \cup {<<Space>> \o o \o a \o c \o <<Space>> :
                  o \in openings, a \in {W(<<"run">>)}, c \in closings}

\* One call of analyzeMessageWithGenkit(messageContent, provider).  The text
\* of the model's answer names the words 'commitment' and 'specific future
\* date' and the date of the message, in a sentence that affirms or denies
\* that the message holds such a commitment; the function reads the words
\* and the date.
AnalyzeMessageWithGenkit ==
    /\ probe = NoProbe
    /\ \E messageContent \in CommitmentTexts, affirms \in BOOLEAN :
           LET response == Response(TRUE, FirstIsoOf(messageContent), <<>>)
           IN  probe' = [tool |-> "analyzeMessageWithGenkit",
                         input |-> [messageContent |-> messageContent, at |-> now,
                                    affirms |-> affirms, response |-> response],
                         output |-> analyzeMessageWithGenkit(messageContent, response,
                                                             now, tz)]
    /\ UNCHANGED <<pipelineVars, inflight, users, idCalls>>

SpecText == InitDate /\ [][AnalyzeMessageWithGenkit]_vars

\* The four commitment phrases in the stated order.
StatedPhrases ==
    << <<"i", "will">>, <<"my", "goal", "is", "to">>, <<"i", "plan", "to">>,
       <<"i'm", "going", "to">> >>

\* The stated text for a phrase that stands at token p: what follows the
\* phrase up to the first of the words on, by, in, at.
StatedContinuation(toks, p, phrase) ==
    LET q == p + Len(phrase)
        stops == {j \in (q + 1)..Len(toks) :
                     toks[j].k = "w" /\ Lower(toks[j].w) \in {"on", "by", "in", "at"}}
        e == IF stops = {} THEN Len(toks)
             ELSE (CHOOSE j \in stops : \A j2 \in stops : j <= j2) - 1
    IN  Render(trim(SubSeq(toks, q, e)))

\* The stated commitment text of a message.
StatedText(toks) ==
    LET found == {n \in 1..Len(StatedPhrases) :
                     \E p \in 1..Len(toks) : PhraseAt(toks, p, StatedPhrases[n])}
    IN  IF found = {} THEN Render(trim(toks))
        ELSE LET n == CHOOSE a \in found : \A b \in found : a <= b
                 p == CHOOSE x \in 1..Len(toks) :
                         /\ PhraseAt(toks, x, StatedPhrases[n])
                         /\ \A y \in 1..(x - 1) : ~PhraseAt(toks, y, StatedPhrases[n])
             IN  StatedContinuation(toks, p, StatedPhrases[n])

\* C33: the commitment text of the AI strategy is what follows the first
\* matching commitment phrase ('I will', 'My goal is to', 'I plan to', 'I'm
\* going to', tried in that order) up to the first of the words on, by, in,
\* at or the end of the message, and the whole trimmed message when no
\* phrase matches.
C33_TextIsContinuationOfPhrase ==
    (probe.tool = "analyzeMessageWithGenkit" /\ probe.output.hasCommitment)
    => probe.output.reminder.text = StatedText(probe.input.messageContent)

\* C34: the AI strategy returns a commitment only for an affirmative verdict:
\* an answer that says no commitment with a specific future date was found
\* yields none, also when its text names 'commitment', 'specific future
\* date' and a future YYYY-MM-DD date.
C34_DenialYieldsNoCommitment ==
    (probe.tool = "analyzeMessageWithGenkit" /\ ~probe.input.affirms)
    => ~probe.output.hasCommitment

\* C35: every stored Reminder sits under reminders/{its userId} at the id
\* generateReminderId gives for its own userId, date_iso and text, and an
\* invocation for a message of user U calls set() only under reminders/U.
C35_KeyIsFingerprintOfFields ==
    /\ \A r \in reminders :
          /\ r.uid = r.data.userId
          /\ r.id = generateReminderId(r.data.userId, r.data.date_iso, r.data.text)
    /\ \A path \in last.sets :
          /\ path[1] = "reminders" /\ path[3] = "userReminders"
          /\ path[2] = last.event.data.userId

\* Reminders of two users are stored, the latest invocation wrote one.
C35_Witness ==
    /\ last.wrote /\ last.sets # {}
    /\ \E r1 \in reminders, r2 \in reminders : r1.uid # r2.uid

\* C36: outside the emulator and without GCLOUD_PROJECT, an event with a found
\* commitment stores the Reminder, makes no createTask call and ends without
\* an error; no createTask call ever names a queue or a URL of an undefined
\* project.
C36_NoProjectStoresWithoutEnqueue ==
    /\ (Handled /\ last.analysis.hasCommitment
            /\ ~env.isEmulator /\ env.GCLOUD_PROJECT = "")
       => /\ last.wrote /\ WrittenReminder \in reminders
          /\ last.enqueued = 0 /\ calls = <<>>
          /\ ~last.threw
    /\ \A n \in 1..Len(calls) :
          /\ calls[n].task.parent # NotificationTask("", "", [t |-> 0], "").parent
          /\ calls[n].task.url # NotificationTask("", "", [t |-> 0], "").url

\* A commitment of a valid date was stored on a host without a project id,
\* and its scheduling was left out.
C36_Witness ==
    /\ ~env.isEmulator /\ env.GCLOUD_PROJECT = ""
    /\ last.outcome = "no-project"
    /\ last.wrote /\ WrittenReminder \in reminders

\* C37: the confidence of every commitment of extractCommitments lies between
\* 0.5 and 1.0 (here 50 and 100 percent): it is 0.5 plus 0.3 for a
\* commitment word, 0.2 for a time indicator and 0.2 for a strong
\* indicator, and 1.0 where that sum is larger.
C37_ConfidenceWithinBounds ==
    last.strategies = <<"rule-based">>
    => \A n \in 1..Len(last.analysis) :
           LET message == last.event.data.content
               c == last.analysis[n].confidence
               sum == 50 + (IF providerHasCommitmentWord(message) THEN 30 ELSE 0)
                         + (IF hasTimeIndicator(message) THEN 20 ELSE 0)
                         + (IF IncludesWord(message, "will") THEN 20 ELSE 0)
           IN  /\ 50 <= c /\ c <= 100
               /\ c = IF sum > 100 THEN 100 ELSE sum

\* A commitment with a commitment word, a time indicator and a strong
\* indicator: the sum of 1.2 is returned as 1.0.
C37_Witness ==
    /\ last.strategies = <<"rule-based">>
    /\ Len(last.analysis) = 1
    /\ providerHasCommitmentWord(last.event.data.content)
    /\ hasTimeIndicator(last.event.data.content)
    /\ IncludesWord(last.event.data.content, "will")
    /\ last.analysis[1].confidence = 100

====
